---- MODULE Spec2Model ----
(***************************************************************************)
(* Model of package srt (src/sort/srt.go): ParallelSort, its merge helper, *)
(* SortBy and IsSorted.                                                    *)
(*                                                                         *)
(* Slices are sequences; a slice expression data[lo:hi] is the pair of     *)
(* 0-based offsets (lo, hi) into the one backing array `data`, so that      *)
(* aliasing between a caller's slice and the halves handed to the          *)
(* recursive calls is kept.  A goroutine is a call stack of ParallelSort   *)
(* frames.                                                                 *)
(***************************************************************************)
EXTENDS Integers, Sequences, FiniteSets, TLC

\* ---------------------------------------------------------------- bounds
\* longest input slice
MaxLen == 6
\* largest parallelism argument of the top-level call
MaxPar == 4

\* srt.go:46 compares len(data) with 1000.  The model keeps the comparison
\* and scales the number, so that slices of MaxLen elements reach the
\* splitting path twice.
Threshold == 3

\* element values of type T; whether two of them are ordered or tie is the
\* comparator's choice
Elem == {1, 2}

\* parallelism arguments of the top-level call (negative and zero included)
Pars == -1..MaxPar

\* ------------------------------------------------------------ comparators
\* less func(i, j T) bool, as its graph
LessFns == [Elem \X Elem -> BOOLEAN]

\* a consistent comparator: a strict weak order (irreflexive, transitive,
\* with transitive incomparability)
IsStrictWeak(l) ==
    /\ \A x \in Elem : ~l[x, x]
    /\ \A x, y, z \in Elem : (l[x, y] /\ l[y, z]) => l[x, z]
    /\ \A x, y, z \in Elem :
          (~l[x, y] /\ ~l[y, x] /\ ~l[y, z] /\ ~l[z, y]) => (~l[x, z] /\ ~l[z, x])

Comparators == {l \in LessFns : IsStrictWeak(l)}

\* ---------------------------------------------------------------- state
VARIABLES
    data,        \* the caller's slice (backing array), 1-based sequence
    input,       \* content of data when ParallelSort was called
    less,        \* the comparator argument
    par0,        \* the parallelism argument of the top-level call
    tasks,       \* goroutines: root segment |-> [stack, parent, done]
    lessCalled,  \* whether less has been called so far
    mg,          \* state of one stand-alone merge call (merge specification)
    tmx,         \* a syncExt.TimeoutMutex and the calls made on it
    once,        \* a syncExt.Once and the calls made on it
    abool,       \* a syncExt.AtomicBool and the Toggle calls made on it
    retry,       \* one call of nt.Client.DoWithRetries
    mctx,        \* one call of cnt.MergeContexts and the contexts involved
    bsearch,     \* one call of srt.BinarySearch
    dedup,       \* one call of srt.Deduplicate
    mrc          \* an ioExt multiReadCloser, its readers and its caller

\* the state of ParallelSort and merge
sortVars == <<data, input, less, par0, tasks, lessCalled, mg>>

\* the state of the other packages' objects
extVars == <<tmx, once, abool, retry, mctx, bsearch, dedup, mrc>>

vars == <<sortVars, extVars>>

\* the value of a variable whose object a specification does not use
Unused == <<>>

\* no object of the other packages is in use
ExtUnused ==
    /\ tmx = Unused
    /\ once = Unused
    /\ abool = Unused
    /\ retry = Unused
    /\ mctx = Unused
    /\ bsearch = Unused
    /\ dedup = Unused
    /\ mrc = Unused

\* ------------------------------------------------------------- helpers
\* data[lo:hi] (0-based, half open)
Slice(d, lo, hi) == SubSeq(d, lo + 1, hi)

\* d with d[lo:lo+len(s)] overwritten by s
Splice(d, lo, s) ==
    [p \in 1..Len(d) |-> IF p > lo /\ p <= lo + Len(s) THEN s[p - lo] ELSE d[p]]

\* number of occurrences of e in s
Count(s, e) == Cardinality({p \in 1..Len(s) : s[p] = e})

\* s and t hold the same multiset of elements
SameElements(s, t) == Len(s) = Len(t) /\ \A e \in Elem : Count(s, e) = Count(t, e)

\* IsSorted(data, less): no adjacent pair is out of order
IsSorted(d, l) == \A p \in 1..(Len(d) - 1) : ~l[d[p + 1], d[p]]

\* the one element of a singleton set.  A recursive operator is applied to
\* The({Op(v) : v \in {e}}) rather than to Op(e), so that e is evaluated once
\* and not once per use of the parameter
The(S) == CHOOSE x \in S : TRUE

\* s with its element at position p removed
RemoveAt(s, p) == SubSeq(s, 1, p - 1) \o SubSeq(s, p + 1, Len(s))

\* sort.Slice is not stable: SortBy may leave any arrangement of d that is
\* sorted under l.  The set of all of them, built front to back from the
\* elements that no remaining element precedes (one position per value).
RECURSIVE SortByResults(_, _)
SortByResults(d, l) ==
    IF Len(d) = 0 THEN {<<>>}
    ELSE UNION { UNION { { <<d[p]>> \o r : r \in SortByResults(rest, l) } :
                         rest \in {RemoveAt(d, p)} } :
                 p \in {q \in 1..Len(d) :
                          /\ \A o \in 1..Len(d) : ~l[d[o], d[q]]
                          /\ \A o \in 1..(q - 1) : d[o] # d[q]} }

\* the arrangement sort.Slice leaves when it keeps ties in input order, as
\* the insertion sort it runs on short slices does: data[j] sinks while it is
\* less than its left neighbour
RECURSIVE Sink(_, _, _)
Sink(d, j, l) ==
    IF j > 1 /\ l[d[j], d[j - 1]]
    THEN The({Sink(e, j - 1, l) : e \in {[d EXCEPT ![j] = d[j - 1], ![j - 1] = d[j]]}})
    ELSE d

RECURSIVE InsertionSortFrom(_, _, _)
InsertionSortFrom(d, i, l) ==
    IF i > Len(d) THEN d
    ELSE The({InsertionSortFrom(e, i + 1, l) : e \in {Sink(d, i, l)}})

InsertionSort(d, l) == InsertionSortFrom(d, 2, l)

\* ---------------------------------------------------------------- merge
\* merge writing into a buffer of its own instead of data
MergeStart_FreshOutput(d, mid) ==
    [data |-> [p \in DOMAIN d |-> d[1]], temp |-> d, mid |-> mid, i |-> 0, j |-> mid, k |-> 0]

\* the locals of merge(data, mid, less) after temp := copy of data
MergeStart(d, mid) ==
    [data |-> d, temp |-> d, mid |-> mid, i |-> 0, j |-> mid, k |-> 0]

\* the first loop written with || instead of &&
InFirstLoop_Or(m) == m.i < m.mid \/ m.j < Len(m.data)

\* first loop condition: i < mid && j < len(data)
InFirstLoop(m) == m.i < m.mid /\ m.j < Len(m.data)

\* the second loop left out
InSecondLoop_Skipped(m) == FALSE

\* second loop condition: i < mid
InSecondLoop(m) == ~InFirstLoop(m) /\ m.i < m.mid

\* the comparison with its arguments exchanged
FrontLess_Swapped(m, l) == l[m.temp[m.j + 1], m.temp[m.i + 1]]

\* the comparison of the first loop, less(temp[i], temp[j])
FrontLess(m, l) == l[m.temp[m.i + 1], m.temp[m.j + 1]]

\* one iteration of the first loop, b being the value less returned
FirstLoopStep(m, b) ==
    IF b
    THEN [m EXCEPT !.data[m.k + 1] = m.temp[m.i + 1], !.i = m.i + 1, !.k = m.k + 1]
    ELSE [m EXCEPT !.data[m.k + 1] = m.temp[m.j + 1], !.j = m.j + 1, !.k = m.k + 1]

\* the second loop copying from data instead of temp
SecondLoopStep_FromData(m) ==
    [m EXCEPT !.data[m.k + 1] = m.data[m.i + 1], !.i = m.i + 1, !.k = m.k + 1]

\* one iteration of the second loop
SecondLoopStep(m) ==
    [m EXCEPT !.data[m.k + 1] = m.temp[m.i + 1], !.i = m.i + 1, !.k = m.k + 1]

\* both loops run to their end under comparator l
RECURSIVE MergeRun(_, _)
MergeRun(m, l) ==
    IF InFirstLoop(m)
    THEN The({MergeRun(n, l) : n \in {FirstLoopStep(m, FrontLess(m, l))}})
    ELSE IF InSecondLoop(m)
    THEN The({MergeRun(n, l) : n \in {SecondLoopStep(m)}})
    ELSE m

\* merge(data, mid, less): the content of data when merge returns
merge(d, mid, l) == MergeRun(MergeStart(d, mid), l).data

\* ------------------------------------------------------------ goroutines
\* the goroutine of the top-level call
Main == <<0, Len(input)>>

NoParent == <<>>

\* a call ParallelSort(data[lo:hi], less, par) that has not run yet
Frame(lo, hi, par) == [lo |-> lo, hi |-> hi, par |-> par, pc |-> "entry", wg |-> 0]

Live == {t \in DOMAIN tasks : ~tasks[t].done}

Top(t) == tasks[t].stack[Len(tasks[t].stack)]

\* len(data) of the slice a call was given
FrameLen(f) == f.hi - f.lo

\* the branch taken when neither test looks at len(data)
Path_NoLengthTests(f) == IF f.par <= 1 THEN "sequential" ELSE "split"

\* the branch taken when srt.go:46 tests the budget only
Path_BudgetOnly(f) ==
    IF FrameLen(f) < 2 THEN "base"
    ELSE IF f.par <= 1 THEN "sequential"
    ELSE "split"

\* the branch a call takes: srt.go:42 and srt.go:46
Path(f) ==
    IF FrameLen(f) < 2 THEN "base"
    ELSE IF f.par <= 1 \/ FrameLen(f) < Threshold THEN "sequential"
    ELSE "split"

\* the split point rounded up
Mid_RoundUp(f) == f.lo + ((FrameLen(f) + 1) \div 2)

\* mid := len(data) / 2, as an offset into the backing array
Mid(f) == f.lo + (FrameLen(f) \div 2)

\* the budget handed on without halving
Budget_NotHalved(f) == f.par

\* parallelism/2, the budget both halves are called with
Budget(f) == f.par \div 2

\* the spawned goroutine given data[:mid+1]
LeftHalf_Overlapping(f) == Frame(f.lo, Mid(f) + 1, Budget(f))

\* the call of the spawned goroutine, ParallelSort(data[:mid], less, parallelism/2)
LeftHalf(f) == Frame(f.lo, Mid(f), Budget(f))

\* the call of the current goroutine, ParallelSort(data[mid:], less, parallelism/2)
RightHalf(f) == Frame(Mid(f), f.hi, Budget(f))

\* the caller's frame at the barrier without wg.Add(1)
Forked_NoAdd(f) == [f EXCEPT !.pc = "wait"]

\* srt.go:52-53  var wg sync.WaitGroup; wg.Add(1): the caller's frame once
\* the goroutine is started, on its way to wg.Wait()
Forked(f) == [f EXCEPT !.pc = "wait", !.wg = 1]

\* the barrier left out
Released_Always(f) == TRUE

\* wg.Wait() returns once the WaitGroup counter is zero
Released(f) == f.wg = 0

\* merge given a split point rounded up instead of down
MergeMid_RoundUp(f) == (FrameLen(f) + 1) \div 2

\* the mid argument of merge(data, mid, less), relative to the slice
MergeMid(f) == Mid(f) - f.lo

\* a spawned goroutine that ends without wg.Done()
ReturnFrom_NoDone(ts, t) ==
    LET st  == ts[t].stack
        pop == SubSeq(st, 1, Len(st) - 1)
    IN  IF Len(pop) > 0
        THEN [ts EXCEPT ![t].stack = pop]
        ELSE [ts EXCEPT ![t].stack = pop, ![t].done = TRUE]

\* the call on top of t's stack returns.  When it was the goroutine's
\* outermost call the goroutine ends, and the deferred wg.Done() of a
\* spawned goroutine decrements the WaitGroup of the frame that spawned it.
ReturnFrom(ts, t) ==
    LET st  == ts[t].stack
        pop == SubSeq(st, 1, Len(st) - 1)
        par == ts[t].parent
    IN  IF Len(pop) > 0
        THEN [ts EXCEPT ![t].stack = pop]
        ELSE IF par = NoParent
             THEN [ts EXCEPT ![t].stack = pop, ![t].done = TRUE]
             ELSE [ts EXCEPT ![t].stack = pop, ![t].done = TRUE,
                             ![par[1]].stack[par[2]].wg = @ - 1]

\* ------------------------------------------------------------------ Init
NoMerge == [data |-> <<>>, temp |-> <<>>, mid |-> 0, i |-> 0, j |-> 0, k |-> 0]

Inputs == UNION {[1..n -> Elem] : n \in 0..MaxLen}

Init ==
    /\ input \in Inputs
    /\ data = input
    /\ less \in Comparators
    /\ par0 \in Pars
    /\ tasks = (<<0, Len(input)>> :>
                  [stack |-> <<Frame(0, Len(input), par0)>>, parent |-> NoParent, done |-> FALSE])
    /\ lessCalled = FALSE
    /\ mg = NoMerge
    /\ ExtUnused

\* --------------------------------------------------------------- actions
\* srt.go:42-44  if len(data) < 2 { return }
BaseReturn(t) ==
    /\ t \in Live
    /\ Top(t).pc = "entry"
    /\ Path(Top(t)) = "base"
    /\ tasks' = ReturnFrom(tasks, t)
    /\ UNCHANGED <<data, input, less, par0, lessCalled, mg, extVars>>

\* srt.go:46-49  if parallelism <= 1 || len(data) < 1000 { SortBy(data, less); return }
\* with SortBy leaving one of the arrangements in `results` in the slice
SortByAndReturn(t, results) ==
    /\ t \in Live
    /\ Top(t).pc = "entry"
    /\ Path(Top(t)) = "sequential"
    /\ \E r \in results : data' = Splice(data, Top(t).lo, r)
    /\ lessCalled' = (lessCalled \/ FrameLen(Top(t)) >= 2)
    /\ tasks' = ReturnFrom(tasks, t)
    /\ UNCHANGED <<input, less, par0, mg, extVars>>

\* the fallback with sort.Slice free to arrange ties as it likes
Sequential(t) ==
    SortByAndReturn(t, SortByResults(Slice(data, Top(t).lo, Top(t).hi), less))

\* the fallback with a sort.Slice that keeps ties in input order
SequentialStable(t) ==
    SortByAndReturn(t, {InsertionSort(Slice(data, Top(t).lo, Top(t).hi), less)})

\* srt.go:51-58  mid, wg.Add(1), go func(){ defer wg.Done(); ParallelSort(data[:mid], ..) }()
\* and the call ParallelSort(data[mid:], less, parallelism/2)
Split(t) ==
    /\ t \in Live
    /\ Top(t).pc = "entry"
    /\ Path(Top(t)) = "split"
    /\ LET f     == Top(t)
           d     == Len(tasks[t].stack)
           left  == LeftHalf(f)
           child == [stack |-> <<left>>, parent |-> <<t, d>>, done |-> FALSE]
       IN  tasks' = ([tasks EXCEPT ![t].stack =
                        Append([@ EXCEPT ![d] = Forked(f)], RightHalf(f))]
                     @@ (<<left.lo, left.hi>> :> child))
    /\ UNCHANGED <<data, input, less, par0, lessCalled, mg, extVars>>

\* srt.go:59  wg.Wait()
Wait(t) ==
    /\ t \in Live
    /\ Top(t).pc = "wait"
    /\ Released(Top(t))
    /\ tasks' = [tasks EXCEPT ![t].stack[Len(tasks[t].stack)].pc = "merge"]
    /\ UNCHANGED <<data, input, less, par0, lessCalled, mg, extVars>>

\* srt.go:62  merge(data, mid, less), and the return
Merge(t) ==
    /\ t \in Live
    /\ Top(t).pc = "merge"
    /\ LET f == Top(t)
           d == Slice(data, f.lo, f.hi)
       IN  /\ \E r \in {merge(d, MergeMid(f), less)} : data' = Splice(data, f.lo, r)
           /\ lessCalled' = (lessCalled \/ InFirstLoop(MergeStart(d, MergeMid(f))))
    /\ tasks' = ReturnFrom(tasks, t)
    /\ UNCHANGED <<input, less, par0, mg, extVars>>

\* one step of one goroutine
Next ==
    \/ \E t \in DOMAIN tasks : BaseReturn(t)
    \/ \E t \in DOMAIN tasks : Split(t)
    \/ \E t \in DOMAIN tasks : Wait(t)
    \/ \E t \in DOMAIN tasks : Sequential(t)
    \/ \E t \in DOMAIN tasks : Merge(t)

Spec == Init /\ [][Next]_vars

\* the runs of Spec in which sort.Slice keeps ties in input order
StableNext ==
    \/ \E t \in DOMAIN tasks : BaseReturn(t)
    \/ \E t \in DOMAIN tasks : SequentialStable(t)
    \/ \E t \in DOMAIN tasks : Split(t)
    \/ \E t \in DOMAIN tasks : Wait(t)
    \/ \E t \in DOMAIN tasks : Merge(t)

StableSpec == Init /\ [][StableNext]_vars

\* the Go scheduler runs some runnable goroutine
FairSpec == Spec /\ WF_vars(Next)

\* -------------------------------------------- merge called on its own
\* merge(data, mid, less) on an arbitrary slice and split point, each call
\* of less answering arbitrarily
MergeInit ==
    /\ \E d \in Inputs : \E mid \in 0..Len(d) : mg = MergeStart(d, mid)
    /\ data = <<>>
    /\ input = <<>>
    /\ less \in Comparators
    /\ par0 = 0
    /\ tasks = <<>>
    /\ lessCalled = FALSE
    /\ ExtUnused

\* srt.go:71-80  one iteration of the first loop
MergeFirstLoop ==
    /\ InFirstLoop(mg)
    /\ \E b \in BOOLEAN : mg' = FirstLoopStep(mg, b)
    /\ lessCalled' = TRUE
    /\ UNCHANGED <<data, input, less, par0, tasks, extVars>>

\* srt.go:82-86  one iteration of the second loop
MergeSecondLoop ==
    /\ InSecondLoop(mg)
    /\ mg' = SecondLoopStep(mg)
    /\ UNCHANGED <<data, input, less, par0, tasks, lessCalled, extVars>>

MergeNext == MergeFirstLoop \/ MergeSecondLoop

MergeSpec == MergeInit /\ [][MergeNext]_vars

\* the top-level call has returned
Returned == tasks[Main].done

\* ---------------------------------------------------------------- claims
\* C1: when ParallelSort returns, the slice is sorted under less: no adjacent
\* pair i has less(data[i+1], data[i]).
C1_Sorted == Returned => IsSorted(data, less)

\* a split run (both halves sorted separately, then merged) has returned
C1_Witness ==
    /\ Returned
    /\ Cardinality(DOMAIN tasks) >= 2
    /\ input # data
    /\ \E x, y \in Elem : less[x, y]

\* C2: the multiset of elements of the slice is the multiset it held at the
\* call, at every recursion level, after every merge and at the return.
C2_Permutation == SameElements(data, input)

\* a merge of a split run has rearranged the slice
C2_Witness ==
    /\ Returned
    /\ Cardinality(DOMAIN tasks) >= 3
    /\ input # data
    /\ \E p, q \in 1..Len(input) : input[p] # input[q]

\* C3 as stated: whatever the parallelism and the interleaving, the final
\* content is the content the sequential sort SortBy produces on the input.
C3_SameAsSequential ==
    Returned => \A r \in SortByResults(input, less) : data = r

\* C3 as amended: the final content agrees with every result of the
\* sequential sort position by position up to ties under less (and is
\* identical to it where less orders every two distinct elements).
C3_EquivalentToSequential ==
    Returned =>
        \A r \in SortByResults(input, less) :
            /\ Len(r) = Len(data)
            /\ \A p \in 1..Len(data) : ~less[data[p], r[p]] /\ ~less[r[p], data[p]]

\* a split run has returned with a content that one sequential result
\* differs from
C3_Witness ==
    /\ Returned
    /\ par0 >= 2
    /\ Cardinality(DOMAIN tasks) >= 2
    /\ \E r \in SortByResults(input, less) : r # data

\* C4: ParallelSort on a slice that is already sorted under less leaves every
\* element at its position, elements that tie under less included.
C4_Idempotent == (Returned /\ IsSorted(input, less)) => data = input

\* C5: on a slice of length 0 or 1 ParallelSort modifies nothing, spawns no
\* goroutine and never calls less, whatever the parallelism.
C5_Boundary ==
    Len(input) < 2 => (data = input /\ DOMAIN tasks = {Main} /\ ~lessCalled)

\* the call on a one-element slice with a negative parallelism has returned
C5_Witness == Len(input) = 1 /\ par0 < 0 /\ Returned

\* every goroutine of the run has ended
AllReturned == \A t \in DOMAIN tasks : tasks[t].done

\* the budget of a call is smaller than the budget of the call that made it
\* or spawned its goroutine
BudgetDecreases ==
    \A t \in Live :
        /\ \A d \in 2..Len(tasks[t].stack) :
              tasks[t].stack[d].par < tasks[t].stack[d - 1].par
        /\ tasks[t].parent # NoParent =>
              tasks[t].stack[1].par <
                  tasks[tasks[t].parent[1]].stack[tasks[t].parent[2]].par

\* C6: every call of ParallelSort terminates: the budget strictly decreases
\* along every recursion path, every spawned goroutine completes, every
\* parent at the barrier is released and the top-level call returns.
C6_Terminates == []BudgetDecreases /\ <>(Returned /\ AllReturned)

\* a run of the largest slice with the largest budget has come to its end
C6_Witness ==
    /\ Returned /\ AllReturned
    /\ Len(input) = MaxLen
    /\ par0 = MaxPar
    /\ Cardinality(DOMAIN tasks) >= 4

\* C7: with parallelism >= 1 the number of goroutines sorting at the same
\* time, the caller's included, never exceeds parallelism.
C7_BoundedBranches == par0 >= 1 => Cardinality(Live) <= par0

\* four goroutines are active at once under a budget of four
C7_Witness == par0 = 4 /\ Cardinality(Live) = 4

\* the slice a goroutine is reading or writing: that of its current call,
\* unless the call is blocked at the barrier
Accessing(t) == t \in Live /\ Top(t).pc \in {"entry", "merge"}

DisjointBranches ==
    \A t, u \in DOMAIN tasks :
        (t # u /\ Accessing(t) /\ Accessing(u)) =>
            (Top(t).hi <= Top(u).lo \/ Top(u).hi <= Top(t).lo)

\* every index whose content a step changes lies in the slice of the call
\* that took the step
WritesInside ==
    \A p \in 1..Len(data) :
        data'[p] # data[p] =>
            \E t \in Live :
                /\ Len(tasks'[t].stack) < Len(tasks[t].stack)
                /\ Top(t).lo < p /\ p <= Top(t).hi

\* C8: goroutines running at the same time work on disjoint index ranges,
\* and a call writes only inside the slice it was given.
C8_Disjoint == []DisjointBranches /\ [][WritesInside]_vars

\* two goroutines are about to merge their own slices at the same time
C8_Witness ==
    \E t, u \in Live :
        /\ t # u
        /\ Top(t).pc = "merge" /\ Top(u).pc = "merge"
        /\ Slice(data, Top(t).lo, Top(t).hi) # merge(Slice(data, Top(t).lo, Top(t).hi), MergeMid(Top(t)), less)

\* the cursors of merge stay within the slice, and the next iteration reads
\* and writes inside it
CursorsInBounds ==
    /\ 0 <= mg.i /\ mg.i <= mg.mid
    /\ mg.mid <= mg.j /\ mg.j <= Len(mg.data)
    /\ 0 <= mg.k /\ mg.k <= Len(mg.data)
    /\ InFirstLoop(mg) => (mg.i < Len(mg.temp) /\ mg.j < Len(mg.temp) /\ mg.k < Len(mg.data))
    /\ InSecondLoop(mg) => (mg.i < Len(mg.temp) /\ mg.k < Len(mg.data))

\* an iteration advances the write cursor and exactly one read cursor
CursorsAdvance ==
    /\ mg'.k = mg.k + 1
    /\ \/ mg'.i = mg.i + 1 /\ mg'.j = mg.j
       \/ mg'.i = mg.i /\ mg'.j = mg.j + 1

\* C9: whatever less answers, merge keeps 0 <= i <= mid, mid <= j <= len and
\* k <= len, never indexes outside [0, len), and every iteration advances
\* the write cursor and exactly one read cursor (so the loops end).
C9_MergeBounded == []CursorsInBounds /\ [][CursorsAdvance]_vars

\* a merge of two non-empty runs has ended after taking elements from both
C9_Witness ==
    /\ ~InFirstLoop(mg) /\ ~InSecondLoop(mg)
    /\ 0 < mg.mid /\ mg.mid < Len(mg.data)
    /\ mg.i = mg.mid /\ mg.j = Len(mg.data)
    /\ mg.data # mg.temp

\* C10: when the top-level call returns, every goroutine it spawned, directly
\* or through its recursive calls, has ended.
C10_NoneLeftRunning == Returned => \A t \in DOMAIN tasks : tasks[t].done

\* the top-level call has returned from a run that spawned three goroutines
C10_Witness == Returned /\ Cardinality(DOMAIN tasks) = 4 /\ Len(input) = 2 * Threshold

\* ======================================================================
\* syncExt.TimeoutMutex (src/syncExt/asc.go)
\* ======================================================================
\* no ParallelSort or merge call is in progress
SortUnused ==
    /\ data = <<>>
    /\ input = <<>>
    /\ less = Unused
    /\ par0 = 0
    /\ tasks = <<>>
    /\ lessCalled = FALSE
    /\ mg = NoMerge

\* goroutines calling TryLock, LockWithTimeout or LockWithContext on one mutex
MaxCallers == 2
Callers == 1..MaxCallers

LockOps == {"TryLock", "LockWithTimeout", "LockWithContext"}

\* a caller that has not called yet.  helper is the goroutine the call
\* starts, ch the number of values in its channel `locked` (capacity 1),
\* free whether the mutex was unlocked and uncontended at the call
NoCall ==
    [op |-> "none", pc |-> "idle", helper |-> "none", ch |-> 0, ret |-> "none", free |-> FALSE]

\* everything but tmx
notTmx == <<sortVars, once, abool, retry, mctx, bsearch, dedup, mrc>>

MutexInit ==
    /\ tmx = [locked |-> FALSE, plain |-> "idle", calls |-> [c \in Callers |-> NoCall]]
    /\ SortUnused
    /\ once = Unused /\ abool = Unused /\ retry = Unused /\ mctx = Unused
    /\ bsearch = Unused /\ dedup = Unused /\ mrc = Unused

\* no goroutine holds the mutex, waits for it or is inside a call on it
Uncontended(c) ==
    /\ ~tmx.locked
    /\ tmx.plain # "holding"
    /\ \A o \in Callers \ {c} :
          /\ tmx.calls[o].pc \in {"idle", "returned", "unlocked"}
          /\ tmx.calls[o].helper \in {"none", "done"}

\* asc.go:27  Lock() by a goroutine that uses the mutex directly
PlainLock ==
    /\ tmx.plain = "idle"
    /\ ~tmx.locked
    /\ tmx' = [tmx EXCEPT !.locked = TRUE, !.plain = "holding"]
    /\ UNCHANGED notTmx

\* asc.go:32  Unlock() by that goroutine
PlainUnlock ==
    /\ tmx.plain = "holding"
    /\ tmx' = [tmx EXCEPT !.locked = FALSE, !.plain = "released"]
    /\ UNCHANGED notTmx

\* asc.go:39-44, 58-63, 77-82  locked := make(chan bool, 1); go func() {...}()
CallLock(c, op) ==
    /\ tmx.calls[c].pc = "idle"
    /\ tmx' = [tmx EXCEPT !.calls[c] =
                  [op |-> op, pc |-> "select", helper |-> "lock", ch |-> 0,
                   ret |-> "none", free |-> Uncontended(c)]]
    /\ UNCHANGED notTmx

\* asc.go:42, 61, 80  m.mu.Lock() in the helper goroutine
HelperLock(c) ==
    /\ tmx.calls[c].helper = "lock"
    /\ ~tmx.locked
    /\ tmx' = [tmx EXCEPT !.locked = TRUE, !.calls[c].helper = "send"]
    /\ UNCHANGED notTmx

\* asc.go:43, 62, 81  locked <- true
HelperSend(c) ==
    /\ tmx.calls[c].helper = "send"
    /\ tmx' = [tmx EXCEPT !.calls[c].helper = "done", !.calls[c].ch = 1]
    /\ UNCHANGED notTmx

\* asc.go:47-48, 66-67, 85-86  case <-locked
SelectLocked(c) ==
    /\ tmx.calls[c].pc = "select"
    /\ tmx.calls[c].ch = 1
    /\ tmx' = [tmx EXCEPT !.calls[c].pc = "returned", !.calls[c].ch = 0,
                          !.calls[c].ret = "acquired"]
    /\ UNCHANGED notTmx

\* asc.go:49-50  default: taken when no value is in the channel
SelectDefault(c) ==
    /\ tmx.calls[c].pc = "select"
    /\ tmx.calls[c].op = "TryLock"
    /\ tmx.calls[c].ch = 0
    /\ tmx' = [tmx EXCEPT !.calls[c].pc = "returned", !.calls[c].ret = "failed"]
    /\ UNCHANGED notTmx

\* asc.go:68-69  case <-time.After(timeout): the timer may fire at any moment,
\* and select picks any ready case
SelectTimeout(c) ==
    /\ tmx.calls[c].pc = "select"
    /\ tmx.calls[c].op = "LockWithTimeout"
    /\ tmx' = [tmx EXCEPT !.calls[c].pc = "returned", !.calls[c].ret = "failed"]
    /\ UNCHANGED notTmx

\* asc.go:87-88  case <-ctx.Done(): the context may be cancelled at any moment
SelectCtxDone(c) ==
    /\ tmx.calls[c].pc = "select"
    /\ tmx.calls[c].op = "LockWithContext"
    /\ tmx' = [tmx EXCEPT !.calls[c].pc = "returned", !.calls[c].ret = "failed"]
    /\ UNCHANGED notTmx

\* asc.go:32  Unlock() by a caller whose call reported the lock acquired
CallerUnlock(c) ==
    /\ tmx.calls[c].pc = "returned"
    /\ tmx.calls[c].ret = "acquired"
    /\ tmx' = [tmx EXCEPT !.locked = FALSE, !.calls[c].pc = "unlocked"]
    /\ UNCHANGED notTmx

MutexNext ==
    \/ PlainLock
    \/ PlainUnlock
    \/ \E c \in Callers : \E op \in LockOps : CallLock(c, op)
    \/ \E c \in Callers : HelperLock(c)
    \/ \E c \in Callers : HelperSend(c)
    \/ \E c \in Callers : SelectLocked(c)
    \/ \E c \in Callers : SelectDefault(c)
    \/ \E c \in Callers : SelectTimeout(c)
    \/ \E c \in Callers : SelectCtxDone(c)
    \/ \E c \in Callers : CallerUnlock(c)

MutexSpec == MutexInit /\ [][MutexNext]_vars

\* the helper goroutine of c's call has taken the mutex
HelperAcquired(c) == tmx.calls[c].helper \in {"send", "done"}

CallReturned(c) == tmx.calls[c].pc \in {"returned", "unlocked"}

\* C11: LockWithTimeout and LockWithContext return nil exactly when the call
\* acquired the mutex; after ErrTimeout or the context error the mutex is not
\* held, and never becomes held, on behalf of that call.
C11_NilIffAcquired ==
    \A c \in Callers :
        (tmx.calls[c].op \in {"LockWithTimeout", "LockWithContext"} /\ CallReturned(c)) =>
            ((tmx.calls[c].ret = "acquired") <=> HelperAcquired(c))

\* C12: TryLock on an unlocked, uncontended mutex returns true, and a call
\* that returns false leaves the mutex not acquired for that call, now and
\* later.
C12_TryLockHonest ==
    \A c \in Callers :
        (tmx.calls[c].op = "TryLock" /\ CallReturned(c)) =>
            /\ tmx.calls[c].free => tmx.calls[c].ret = "acquired"
            /\ tmx.calls[c].ret = "failed" => ~HelperAcquired(c)

\* ======================================================================
\* syncExt.Once (src/syncExt/asc.go)
\* ======================================================================
\* goroutines calling Do on one Once; one more goroutine calls Reset
MaxDoers == 2
Doers == 1..MaxDoers
Resetter == 0
NoHolder == -1

\* everything but once
notOnce == <<sortVars, tmx, abool, retry, mctx, bsearch, dedup, mrc>>

\* done and m are the fields of Once; running is TRUE while f executes,
\* runs counts the executions of f since the last Reset, wasReset tells
\* whether a Reset has stored yet
OnceInit ==
    /\ once = [done |-> 0, m |-> NoHolder, running |-> FALSE, runs |-> 0,
               wasReset |-> FALSE,
               pc |-> [g \in Doers \cup {Resetter} |-> "idle"]]
    /\ SortUnused
    /\ tmx = Unused /\ abool = Unused /\ retry = Unused /\ mctx = Unused
    /\ bsearch = Unused /\ dedup = Unused /\ mrc = Unused

\* asc.go:223  atomic.LoadUint32(&o.done) == 0 is false: Do returns
DoFast(g) ==
    /\ once.pc[g] = "idle"
    /\ once.done = 1
    /\ once' = [once EXCEPT !.pc[g] = "returned"]
    /\ UNCHANGED notOnce

\* asc.go:223-224  the load reads 0: Do calls doSlow
DoLoad(g) ==
    /\ once.pc[g] = "idle"
    /\ once.done = 0
    /\ once' = [once EXCEPT !.pc[g] = "lock"]
    /\ UNCHANGED notOnce

\* asc.go:229  o.m.Lock()
DoSlowLock(g) ==
    /\ once.pc[g] = "lock"
    /\ once.m = NoHolder
    /\ once' = [once EXCEPT !.m = g, !.pc[g] = "check"]
    /\ UNCHANGED notOnce

NeedsRun_Unchecked == TRUE
\* asc.go:231  if o.done == 0
NeedsRun == once.done = 0

\* asc.go:231-233  the second test of done; f starts when it is still 0
DoSlowCheck(g) ==
    /\ once.pc[g] = "check"
    /\ IF NeedsRun
         THEN once' = [once EXCEPT !.pc[g] = "f", !.running = TRUE, !.runs = @ + 1]
         ELSE once' = [once EXCEPT !.pc[g] = "unlock"]
    /\ UNCHANGED notOnce

\* asc.go:233  f() returns
DoSlowRun(g) ==
    /\ once.pc[g] = "f"
    /\ once' = [once EXCEPT !.pc[g] = "store", !.running = FALSE]
    /\ UNCHANGED notOnce

\* asc.go:232  deferred atomic.StoreUint32(&o.done, 1)
DoSlowStore(g) ==
    /\ once.pc[g] = "store"
    /\ once' = [once EXCEPT !.pc[g] = "unlock", !.done = 1]
    /\ UNCHANGED notOnce

\* asc.go:230  deferred o.m.Unlock(); doSlow and Do return
DoSlowUnlock(g) ==
    /\ once.pc[g] = "unlock"
    /\ once' = [once EXCEPT !.pc[g] = "returned", !.m = NoHolder]
    /\ UNCHANGED notOnce

\* the goroutine calls Do again
DoAgain(g) ==
    /\ once.pc[g] = "returned"
    /\ once' = [once EXCEPT !.pc[g] = "idle"]
    /\ UNCHANGED notOnce

\* asc.go:239  o.m.Lock() in Reset
ResetLock ==
    /\ once.pc[Resetter] = "idle"
    /\ once.m = NoHolder
    /\ once' = [once EXCEPT !.m = Resetter, !.pc[Resetter] = "store"]
    /\ UNCHANGED notOnce

\* asc.go:241  atomic.StoreUint32(&o.done, 0)
ResetStore ==
    /\ once.pc[Resetter] = "store"
    /\ once' = [once EXCEPT !.pc[Resetter] = "unlock", !.done = 0, !.runs = 0,
                            !.wasReset = TRUE]
    /\ UNCHANGED notOnce

\* asc.go:240  deferred o.m.Unlock(); Reset returns and may be called again
ResetUnlock ==
    /\ once.pc[Resetter] = "unlock"
    /\ once' = [once EXCEPT !.pc[Resetter] = "idle", !.m = NoHolder]
    /\ UNCHANGED notOnce

OnceNext ==
    \/ \E g \in Doers : DoFast(g)
    \/ \E g \in Doers : DoLoad(g)
    \/ \E g \in Doers : DoSlowLock(g)
    \/ \E g \in Doers : DoSlowCheck(g)
    \/ \E g \in Doers : DoSlowRun(g)
    \/ \E g \in Doers : DoSlowStore(g)
    \/ \E g \in Doers : DoSlowUnlock(g)
    \/ \E g \in Doers : DoAgain(g)
    \/ ResetLock
    \/ ResetStore
    \/ ResetUnlock

OnceSpec == OnceInit /\ [][OnceNext]_vars

\* f has executed at most once since the last Reset, and never twice at a time
AtMostOncePerReset == once.runs <= 1

\* a Do call returns only when f has executed, and finished executing, exactly
\* once since the last Reset (or since construction)
ReturnsAfterExecution ==
    \A g \in Doers :
        (once.pc[g] # "returned" /\ once'.pc[g] = "returned") =>
            (once'.runs = 1 /\ ~once'.running /\ once'.done = 1)

\* C13: under every interleaving of Do and Reset calls f is executed at most
\* once between two Resets, no Do returns before that execution has finished,
\* and a Do that follows a completed Reset has f executed again.
C13_OncePerReset == []AtMostOncePerReset /\ [][ReturnsAfterExecution]_vars

\* after a Reset a Do call has returned with f executed again, while the other
\* Do call went through doSlow without executing f
C13_Witness ==
    /\ once.wasReset
    /\ once.runs = 1
    /\ once.pc[Resetter] = "idle"
    /\ once.pc[1] = "returned"
    /\ once.pc[2] = "unlock"

\* ======================================================================
\* syncExt.AtomicBool (src/syncExt/asc.go)
\* ======================================================================
\* goroutines that each call Toggle once on one AtomicBool
MaxTogglers == 3
Togglers == 1..MaxTogglers

\* everything but abool
notABool == <<sortVars, tmx, once, retry, mctx, bsearch, dedup, mrc>>

\* value is the field; initial its value before the calls; old[g] and ret[g]
\* are g's local `old` and its return value (-1: none yet); hist lists the
\* successful compare-and-swaps in the order they took effect; retried[g]
\* tells whether a compare-and-swap of g has failed
ABoolInit ==
    /\ \E v \in {0, 1} :
          abool = [value |-> v, initial |-> v,
                   pc |-> [g \in Togglers |-> "load"],
                   old |-> [g \in Togglers |-> 0],
                   ret |-> [g \in Togglers |-> -1],
                   retried |-> [g \in Togglers |-> FALSE],
                   hist |-> <<>>]
    /\ SortUnused
    /\ tmx = Unused /\ once = Unused /\ retry = Unused /\ mctx = Unused
    /\ bsearch = Unused /\ dedup = Unused /\ mrc = Unused

\* asc.go:115-118  new := 1; if old != 0 { new = 0 }
NewValue(old) == IF old # 0 THEN 0 ELSE 1

\* asc.go:114  old := atomic.LoadUint32(&b.value)
ToggleLoad(g) ==
    /\ abool.pc[g] = "load"
    /\ abool' = [abool EXCEPT !.pc[g] = "cas", !.old[g] = abool.value]
    /\ UNCHANGED notABool

CasSucceeds_Always(g) == TRUE
\* asc.go:119  CompareAndSwapUint32 swaps only when the value is still old
CasSucceeds(g) == abool.value = abool.old[g]

\* asc.go:119-121  the compare-and-swap; return new != 0 when it succeeds,
\* another round of the loop when it fails
ToggleCas(g) ==
    /\ abool.pc[g] = "cas"
    /\ IF CasSucceeds(g)
         THEN abool' = [abool EXCEPT
                  !.value = NewValue(abool.old[g]),
                  !.pc[g] = "returned",
                  !.ret[g] = NewValue(abool.old[g]),
                  !.hist = Append(@, [by |-> g, installed |-> NewValue(abool.old[g])])]
         ELSE abool' = [abool EXCEPT !.pc[g] = "load", !.retried[g] = TRUE]
    /\ UNCHANGED notABool

ABoolNext ==
    \/ \E g \in Togglers : ToggleLoad(g)
    \/ \E g \in Togglers : ToggleCas(g)

ABoolSpec == ABoolInit /\ [][ABoolNext]_vars

\* v flipped k times
Flipped(v, k) == (v + k) % 2

\* C14: for every interleaving of the Toggle calls the value is the initial
\* value flipped once per returned call, each call returns the value it
\* installed, and the returned values alternate in the order the toggles took
\* effect; when all N calls have returned the value is the initial value
\* flipped N times.
C14_ToggleAtomic ==
    /\ Len(abool.hist) = Cardinality({g \in Togglers : abool.pc[g] = "returned"})
    /\ abool.value = Flipped(abool.initial, Len(abool.hist))
    /\ \A k \in 1..Len(abool.hist) :
          /\ abool.hist[k].installed = Flipped(abool.initial, k)
          /\ abool.ret[abool.hist[k].by] = abool.hist[k].installed
    /\ \A g \in Togglers : abool.pc[g] # "returned" => abool.ret[g] = -1

\* all calls have returned, and one of them lost a compare-and-swap to
\* another call and went round the loop again
C14_Witness ==
    /\ \A g \in Togglers : abool.pc[g] = "returned"
    /\ abool.retried[1]
    /\ abool.hist[1].by = 2
    /\ abool.value = Flipped(abool.initial, MaxTogglers)

\* ======================================================================
\* net.Client.DoWithRetries (src/net/nt.go)
\* ======================================================================
MaxRetry == 3
\* Client.RetryCount is an int that NewClient stores unchecked
RetryCounts == -2..MaxRetry

\* everything but retry
notRetry == <<sortVars, tmx, once, abool, mctx, bsearch, dedup, mrc>>

\* resp, err before the first attempt
NoAttempt == [attempt |-> 0, err |-> "none"]

\* count is c.RetryCount, i the loop variable, last the resp, err pair of the
\* latest c.Do (named by the attempt's number), ret the returned pair; n
\* counts the calls of c.Do, afterCancel those begun with the request's
\* context already cancelled, afterSuccess those begun after a success
RetryInit ==
    /\ \E c \in RetryCounts :
          retry = [count |-> c, i |-> 0, pc |-> "loop", n |-> 0,
                   last |-> NoAttempt, ret |-> NoAttempt, cancelled |-> FALSE,
                   succeeded |-> FALSE, afterCancel |-> 0, afterSuccess |-> 0]
    /\ SortUnused
    /\ tmx = Unused /\ once = Unused /\ abool = Unused /\ mctx = Unused
    /\ bsearch = Unused /\ dedup = Unused /\ mrc = Unused

\* nt.go:82  attempts := c.RetryCount + 1
Attempts == retry.count + 1

\* the request's context is cancelled, at any moment before the return
CancelRequest ==
    /\ retry.pc # "returned"
    /\ ~retry.cancelled
    /\ retry' = [retry EXCEPT !.cancelled = TRUE]
    /\ UNCHANGED notRetry

\* nt.go:83-84  i < attempts: resp, err = c.Do(req), which fails or succeeds
DoAttempt(e) ==
    /\ retry.pc = "loop"
    /\ retry.i < Attempts
    /\ retry' = [retry EXCEPT
          !.pc = "check",
          !.n = @ + 1,
          !.last = [attempt |-> retry.n + 1, err |-> e],
          !.succeeded = @ \/ e = "nil",
          !.afterCancel = IF retry.cancelled THEN @ + 1 ELSE @,
          !.afterSuccess = IF retry.succeeded THEN @ + 1 ELSE @]
    /\ UNCHANGED notRetry

\* nt.go:83, 97  i < attempts is false: return resp, err
LoopExit ==
    /\ retry.pc = "loop"
    /\ ~(retry.i < Attempts)
    /\ retry' = [retry EXCEPT !.pc = "returned", !.ret = retry.last]
    /\ UNCHANGED notRetry

StopsRetrying_OnSuccessOnly == retry.last.err = "nil"
\* nt.go:87  err == nil || req.Context().Err() != nil
StopsRetrying == retry.last.err = "nil" \/ retry.cancelled

\* nt.go:87-94  return resp, err, or sleep unless this was the last attempt
CheckResult ==
    /\ retry.pc = "check"
    /\ IF StopsRetrying
         THEN retry' = [retry EXCEPT !.pc = "returned", !.ret = retry.last]
         ELSE IF retry.i < Attempts - 1
                THEN retry' = [retry EXCEPT !.pc = "sleep"]
                ELSE retry' = [retry EXCEPT !.pc = "loop", !.i = @ + 1]
    /\ UNCHANGED notRetry

\* nt.go:93  time.Sleep(c.RetryDelay) returns; i++
SleepOver ==
    /\ retry.pc = "sleep"
    /\ retry' = [retry EXCEPT !.pc = "loop", !.i = @ + 1]
    /\ UNCHANGED notRetry

RetryNext ==
    \/ CancelRequest
    \/ \E e \in {"nil", "error"} : DoAttempt(e)
    \/ LoopExit
    \/ CheckResult
    \/ SleepOver

RetrySpec == RetryInit /\ [][RetryNext]_vars

RetryMax(a, b) == IF a >= b THEN a ELSE b

\* C15 as stated: at most RetryCount+1 attempts, exactly that many when all
\* fail and the context is never cancelled, no attempt after the first
\* success or after the context is cancelled, and the result returned is the
\* last attempt's.
C15_AsStated ==
    /\ retry.pc = "returned" => retry.n <= retry.count + 1
    /\ (retry.pc = "returned" /\ ~retry.succeeded /\ ~retry.cancelled) =>
          retry.n = retry.count + 1
    /\ retry.afterSuccess = 0
    /\ retry.afterCancel = 0
    /\ retry.pc = "returned" => (retry.n > 0 /\ retry.ret.attempt = retry.n)

\* C15 amended: at most max(RetryCount+1, 0) attempts, exactly that many when
\* all fail and the context is never cancelled, no attempt after the first
\* success, at most one attempt begun after the context is cancelled, and the
\* result returned is the last attempt's (nil, nil when no attempt was made).
C15_BoundedAttempts ==
    /\ retry.n <= RetryMax(retry.count + 1, 0)
    /\ (retry.pc = "returned" /\ ~retry.succeeded /\ ~retry.cancelled) =>
          retry.n = RetryMax(retry.count + 1, 0)
    /\ retry.afterSuccess = 0
    /\ retry.afterCancel <= 1
    /\ retry.pc = "returned" => (retry.ret = retry.last /\ retry.ret.attempt = retry.n)

\* the context was cancelled during the sleep after a failed attempt, and the
\* call returned after one more attempt, with retries still left
C15_Witness ==
    /\ retry.pc = "returned"
    /\ retry.count = MaxRetry
    /\ retry.n = 2
    /\ retry.afterCancel = 1
    /\ retry.ret.attempt = 2

\* ======================================================================
\* context.MergeContexts (src/context/cnt.go)
\* ======================================================================
MaxParents == 3

\* everything but mctx
notMCtx == <<sortVars, tmx, once, abool, retry, bsearch, dedup, mrc>>

\* n parents, each cancelled or not (CancelParent may precede the call);
\* derived is the context made by context.WithCancel(parents[0]);
\* watcher[p] is the goroutine started for parent p
MCtxInit ==
    /\ \E n \in 0..MaxParents :
          mctx = [n |-> n, called |-> FALSE, parentDone |-> [p \in 1..n |-> FALSE],
                  derivedDone |-> FALSE,
                  watcher |-> [p \in 1..n |-> "none"]]
    /\ SortUnused
    /\ tmx = Unused /\ once = Unused /\ abool = Unused /\ retry = Unused
    /\ bsearch = Unused /\ dedup = Unused /\ mrc = Unused

WatchedParents_FirstOnly(n) == {1}
\* cnt.go:41  for _, parent := range parents
WatchedParents(n) == 1..n

\* cnt.go:28-47  the call: with two parents or more, one goroutine per parent
MergeContextsCall ==
    /\ ~mctx.called
    /\ mctx' = [mctx EXCEPT
          !.called = TRUE,
          !.watcher = [p \in 1..mctx.n |->
                          IF mctx.n >= 2 /\ p \in WatchedParents(mctx.n)
                            THEN "wait" ELSE "none"]]
    /\ UNCHANGED notMCtx

\* a parent context is cancelled by its owner
CancelParent(p) ==
    /\ p \in 1..mctx.n
    /\ ~mctx.parentDone[p]
    /\ mctx' = [mctx EXCEPT !.parentDone[p] = TRUE]
    /\ UNCHANGED notMCtx

\* cnt.go:38  context.WithCancel(parents[0]): the derived context is
\* cancelled when parents[0] is
BaseCancelled ==
    /\ mctx.called
    /\ mctx.n >= 2
    /\ mctx.parentDone[1]
    /\ ~mctx.derivedDone
    /\ mctx' = [mctx EXCEPT !.derivedDone = TRUE]
    /\ UNCHANGED notMCtx

\* cnt.go:43  <-p.Done() returns
WatcherWake(p) ==
    /\ p \in 1..mctx.n
    /\ mctx.watcher[p] = "wait"
    /\ mctx.parentDone[p]
    /\ mctx' = [mctx EXCEPT !.watcher[p] = "cancel"]
    /\ UNCHANGED notMCtx

\* cnt.go:44  cancel()
WatcherCancel(p) ==
    /\ p \in 1..mctx.n
    /\ mctx.watcher[p] = "cancel"
    /\ mctx' = [mctx EXCEPT !.watcher[p] = "done", !.derivedDone = TRUE]
    /\ UNCHANGED notMCtx

\* cnt.go:29-35, 47  the context the call returned is Done
ResultDone ==
    /\ mctx.called
    /\ IF mctx.n = 0 THEN FALSE
       ELSE IF mctx.n = 1 THEN mctx.parentDone[1]
       ELSE mctx.derivedDone

MCtxNext ==
    \/ MergeContextsCall
    \/ \E p \in 1..MaxParents : CancelParent(p)
    \/ BaseCancelled
    \/ \E p \in 1..MaxParents : WatcherWake(p)
    \/ \E p \in 1..MaxParents : WatcherCancel(p)

\* the call returns, every started goroutine is scheduled, and the context
\* package passes a cancellation on to a derived context
MCtxSpec ==
    /\ MCtxInit
    /\ [][MCtxNext]_vars
    /\ WF_vars(MergeContextsCall)
    /\ WF_vars(BaseCancelled)
    /\ \A p \in 1..MaxParents : WF_vars(WatcherWake(p) \/ WatcherCancel(p))

\* C16: for any number of parents, one included, whenever a parent is
\* cancelled, whichever it is and in whatever order, the context returned by
\* MergeContexts eventually is Done.
C16_CancelledByAnyParent ==
    \A p \in 1..MaxParents :
        (p <= mctx.n /\ mctx.parentDone[p]) ~> ResultDone

\* the last parent alone is cancelled and its goroutine has cancelled the
\* returned context
C16_Witness ==
    /\ mctx.n = MaxParents
    /\ \A p \in 1..mctx.n : mctx.parentDone[p] <=> p = mctx.n
    /\ mctx.watcher[mctx.n] = "done"
    /\ ResultDone

\* ======================================================================
\* srt.BinarySearch (src/sort/srt.go)
\* ======================================================================
\* longest slice searched
MaxSearchLen == 4

\* values of type T for the search: three, so that a target can fall between
\* the elements of the slice
Keys == {1, 2, 3}

\* the consistent comparators over Keys (strict weak orders)
KeyComparators ==
    {l \in [Keys \X Keys -> BOOLEAN] :
        /\ \A x \in Keys : ~l[x, x]
        /\ \A x, y, z \in Keys : (l[x, y] /\ l[y, z]) => l[x, z]
        /\ \A x, y, z \in Keys :
              (~l[x, y] /\ ~l[y, x] /\ ~l[y, z] /\ ~l[z, y]) => (~l[x, z] /\ ~l[z, x])}

\* everything but bsearch
notBSearch == <<sortVars, tmx, once, abool, retry, mctx, dedup, mrc>>

\* srt.go:102  low, high := 0, len(data)-1, for every slice sorted under less
\* and every target
BSearchInit ==
    /\ \E l \in KeyComparators : \E n \in 0..MaxSearchLen :
       \E d \in [1..n -> Keys] : \E t \in Keys :
          /\ IsSorted(d, l)
          /\ bsearch = [data |-> d, less |-> l, target |-> t,
                        low |-> 0, high |-> n - 1, pc |-> "loop",
                        idx |-> -1, found |-> FALSE]
    /\ SortUnused
    /\ tmx = Unused /\ once = Unused /\ abool = Unused /\ retry = Unused
    /\ mctx = Unused /\ dedup = Unused /\ mrc = Unused

\* srt.go:104  mid := low + (high-low)/2
Midpoint(low, high) == low + (high - low) \div 2

NextHigh_Keep(mid) == mid
\* srt.go:108  high = mid - 1
NextHigh(mid) == mid - 1

\* srt.go:103-111  one round of the loop; data[mid] is element mid+1 of the
\* sequence, and an index outside the slice panics
BSearchProbe ==
    /\ bsearch.pc = "loop"
    /\ bsearch.low <= bsearch.high
    /\ LET mid == Midpoint(bsearch.low, bsearch.high)
           b == bsearch
       IN  IF mid \notin 0..(Len(b.data) - 1)
             THEN bsearch' = [b EXCEPT !.pc = "panic"]
           ELSE IF b.less[b.data[mid + 1], b.target]
             THEN bsearch' = [b EXCEPT !.low = mid + 1]
           ELSE IF b.less[b.target, b.data[mid + 1]]
             THEN bsearch' = [b EXCEPT !.high = NextHigh(mid)]
           ELSE bsearch' = [b EXCEPT !.pc = "returned", !.idx = mid, !.found = TRUE]
    /\ UNCHANGED notBSearch

\* srt.go:103, 113  low <= high is false: return low, false
BSearchExit ==
    /\ bsearch.pc = "loop"
    /\ ~(bsearch.low <= bsearch.high)
    /\ bsearch' = [bsearch EXCEPT !.pc = "returned", !.idx = bsearch.low, !.found = FALSE]
    /\ UNCHANGED notBSearch

BSearchNext ==
    \/ BSearchProbe
    \/ BSearchExit

\* the searching goroutine keeps running
BSearchSpec == BSearchInit /\ [][BSearchNext]_vars /\ WF_vars(BSearchNext)

\* a and b are equivalent under the comparator l
Equivalent(l, a, b) == ~l[a, b] /\ ~l[b, a]

\* the result of a returned search: found exactly when an equivalent element
\* exists, at its index; otherwise the insertion point
SearchResultRight ==
    LET b == bsearch
        n == Len(b.data)
    IN  b.pc = "returned" =>
          /\ b.found <=> \E k \in 1..n : Equivalent(b.less, b.data[k], b.target)
          /\ b.found => /\ b.idx \in 0..(n - 1)
                        /\ Equivalent(b.less, b.data[b.idx + 1], b.target)
          /\ ~b.found => /\ b.idx \in 0..n
                         /\ \A k \in 1..b.idx : b.less[b.data[k], b.target]
                         /\ \A k \in (b.idx + 1)..n : b.less[b.target, b.data[k]]

\* no index outside the slice is used
SearchInBounds ==
    /\ bsearch.pc # "panic"
    /\ bsearch.low \in 0..Len(bsearch.data)
    /\ bsearch.high \in -1..(Len(bsearch.data) - 1)

\* C17: on a slice sorted under less BinarySearch returns (idx, TRUE) with
\* data[idx] equivalent to target when such an element exists, and otherwise
\* (p, FALSE) with every element before p less than target and every element
\* from p on greater; it never indexes outside the slice and it terminates.
C17_BinarySearch ==
    /\ [](SearchResultRight /\ SearchInBounds)
    /\ <>(bsearch.pc = "returned")

\* a search that has narrowed from both sides and returned an insertion point
\* inside the slice
C17_Witness ==
    /\ bsearch.pc = "returned"
    /\ ~bsearch.found
    /\ Len(bsearch.data) = MaxSearchLen
    /\ bsearch.idx = 1
    /\ bsearch.high = 0

\* ======================================================================
\* srt.Deduplicate (src/sort/srt.go)
\* ======================================================================
\* longest slice deduplicated
MaxDedupLen == 5

\* everything but dedup
notDedup == <<sortVars, tmx, once, abool, retry, mctx, bsearch, mrc>>

\* the sorted slices of Keys (T comparable, here ordered as integers)
SortedSlices ==
    {d \in UNION {[1..n -> Keys] : n \in 0..MaxDedupLen} :
        \A p \in 1..(Len(d) - 1) : d[p] <= d[p + 1]}

\* data is the slice, input its content at the call; i, j the loop variables
\* (0-based), n the returned length; written holds the indexes assigned so
\* far, moves the (from, to) index pairs of the assignments, and staleRead
\* tells whether a comparison has read an index that had been assigned
DedupInit ==
    /\ \E d \in SortedSlices :
          dedup = [data |-> d, input |-> d, i |-> 0, j |-> 0, pc |-> "entry",
                   n |-> -1, written |-> {}, moves |-> {}, staleRead |-> FALSE]
    /\ SortUnused
    /\ tmx = Unused /\ once = Unused /\ abool = Unused /\ retry = Unused
    /\ mctx = Unused /\ bsearch = Unused /\ mrc = Unused

\* srt.go:119-121  if len(data) < 2 { return len(data) }
DedupShort ==
    /\ dedup.pc = "entry"
    /\ Len(dedup.data) < 2
    /\ dedup' = [dedup EXCEPT !.pc = "returned", !.n = Len(dedup.data)]
    /\ UNCHANGED notDedup

\* srt.go:123-124  j := 1; i := 1
DedupStart ==
    /\ dedup.pc = "entry"
    /\ ~(Len(dedup.data) < 2)
    /\ dedup' = [dedup EXCEPT !.pc = "loop", !.i = 1, !.j = 1]
    /\ UNCHANGED notDedup

Keeps_Always(d, i) == TRUE
\* srt.go:125  data[i] != data[i-1]  (index i is element i+1 of the sequence)
Keeps(d, i) == d[i + 1] # d[i]

\* srt.go:124-131  one round of the loop
DedupStep ==
    /\ dedup.pc = "loop"
    /\ dedup.i < Len(dedup.data)
    /\ LET i == dedup.i
           j == dedup.j
           stale == dedup.staleRead \/ i \in dedup.written \/ (i - 1) \in dedup.written
       IN  IF Keeps(dedup.data, i)
             THEN IF i # j
                    THEN dedup' = [dedup EXCEPT
                            !.data[j + 1] = dedup.data[i + 1],
                            !.written = @ \cup {j},
                            !.moves = @ \cup {<<i, j>>},
                            !.j = j + 1, !.i = i + 1, !.staleRead = stale]
                    ELSE dedup' = [dedup EXCEPT
                            !.j = j + 1, !.i = i + 1, !.staleRead = stale]
             ELSE dedup' = [dedup EXCEPT !.i = i + 1, !.staleRead = stale]
    /\ UNCHANGED notDedup

\* srt.go:124, 133  i < len(data) is false: return j
DedupReturn ==
    /\ dedup.pc = "loop"
    /\ ~(dedup.i < Len(dedup.data))
    /\ dedup' = [dedup EXCEPT !.pc = "returned", !.n = dedup.j]
    /\ UNCHANGED notDedup

DedupNext ==
    \/ DedupShort
    \/ DedupStart
    \/ DedupStep
    \/ DedupReturn

DedupSpec == DedupInit /\ [][DedupNext]_vars

\* the distinct values of s, each at its first occurrence, in order
RECURSIVE DistinctInOrder(_)
DistinctInOrder(s) ==
    IF s = <<>> THEN <<>>
    ELSE LET n == Len(s)
             front == DistinctInOrder(SubSeq(s, 1, n - 1))
         IN  IF \E k \in 1..(n - 1) : s[k] = s[n] THEN front ELSE Append(front, s[n])

\* C18: on a sorted slice Deduplicate returns n with data[0:n] holding
\* exactly the distinct values of the input in their original order, no two
\* adjacent ones equal; every assignment moves an element to a lower index,
\* and no comparison reads an index that has been assigned before.
C18_Deduplicate ==
    /\ dedup.pc = "returned" =>
          /\ dedup.n \in 0..Len(dedup.data)
          /\ SubSeq(dedup.data, 1, dedup.n) = DistinctInOrder(dedup.input)
          /\ \A p \in 1..(dedup.n - 1) : dedup.data[p] # dedup.data[p + 1]
    /\ \A m \in dedup.moves : m[2] < m[1]
    /\ ~dedup.staleRead
    /\ Len(dedup.data) = Len(dedup.input)

\* a slice of the greatest length with duplicates of two values, reduced to
\* three elements by two assignments
C18_Witness ==
    /\ dedup.pc = "returned"
    /\ Len(dedup.input) = MaxDedupLen
    /\ dedup.n = 3
    /\ Cardinality(dedup.moves) = 2
    /\ dedup.input[1] = dedup.input[2]

\* ======================================================================
\* ioExt.MultiReadCloser (src/unnamed/part_004)
\* ======================================================================
\* most readers handed to MultiReadCloser, most bytes in one reader, and
\* len(p) of the caller's buffer
MaxReaders == 3
MaxBytes == 2
BufLen == 2

\* everything but mrc
notMrc == <<sortVars, tmx, once, abool, retry, mctx, bsearch, dedup>>

\* the content of reader r with n bytes: byte b of reader r is <<r, b>>
Content(r, n) == [b \in 1..n |-> <<r, b>>]

RECURSIVE Concat(_)
\* the concatenation of a sequence of byte sequences
Concat(ss) == IF ss = <<>> THEN <<>> ELSE Head(ss) \o Concat(Tail(ss))

\* part_004:119-123  rest[r] is what reader r has not returned yet, current
\* the field (0-based); delivered the bytes the caller has received, whole
\* the readers' contents in order; pc is "idle" between the caller's Read
\* calls, "reading" inside the recursive m.Read(p), "eof" once a call has
\* returned io.EOF
MrcInit ==
    /\ \E k \in 0..MaxReaders : \E size \in [1..k -> 0..MaxBytes] :
          mrc = [rest |-> [r \in 1..k |-> Content(r, size[r])],
                 whole |-> Concat([r \in 1..k |-> Content(r, size[r])]),
                 current |-> 0, delivered |-> <<>>, pc |-> "idle"]
    /\ SortUnused
    /\ tmx = Unused /\ once = Unused /\ abool = Unused /\ retry = Unused
    /\ mctx = Unused /\ bsearch = Unused /\ dedup = Unused

\* part_004:132-134  m.current >= len(m.readers): return 0, io.EOF
ReadPastEnd ==
    /\ mrc.pc \in {"idle", "reading"}
    /\ mrc.current >= Len(mrc.rest)
    /\ mrc' = [mrc EXCEPT !.pc = "eof"]
    /\ UNCHANGED notMrc

\* part_004:136-143  n, err = m.readers[m.current].Read(p).  The reader
\* returns its next k bytes, k <= len(p); it may return io.EOF together with
\* its last bytes (eof with k > 0) or by itself in a later call (k = 0).
\* On io.EOF of a reader that is not the last, the result is that of the
\* nested m.Read(p), which fills p from index 0 again.
ReadCurrent(k, eof) ==
    /\ mrc.pc \in {"idle", "reading"}
    /\ mrc.current < Len(mrc.rest)
    /\ LET r == mrc.current + 1
           left == mrc.rest[r]
       IN  /\ k <= Len(left)
           /\ k <= BufLen
           /\ eof => k = Len(left)
           /\ k = 0 => eof
           /\ IF eof
                THEN IF mrc.current + 1 < Len(mrc.rest)
                       THEN mrc' = [mrc EXCEPT
                               !.rest[r] = <<>>,
                               !.current = @ + 1,
                               !.pc = "reading"]
                       ELSE mrc' = [mrc EXCEPT
                               !.rest[r] = <<>>,
                               !.current = @ + 1,
                               !.delivered = @ \o left,
                               !.pc = "eof"]
                ELSE mrc' = [mrc EXCEPT
                        !.rest[r] = SubSeq(left, k + 1, Len(left)),
                        !.delivered = @ \o SubSeq(left, 1, k),
                        !.pc = "idle"]
    /\ UNCHANGED notMrc

MrcNext ==
    \/ ReadPastEnd
    \/ \E k \in 0..BufLen : \E eof \in BOOLEAN : ReadCurrent(k, eof)

MrcSpec == MrcInit /\ [][MrcNext]_vars

\* C19: the bytes delivered by the Read calls are the readers' contents in
\* order, none lost or repeated, also when a reader returns bytes together
\* with io.EOF, and io.EOF is returned only when all of them are delivered.
C19_Concatenation ==
    /\ Len(mrc.delivered) <= Len(mrc.whole)
    /\ mrc.delivered = SubSeq(mrc.whole, 1, Len(mrc.delivered))
    /\ mrc.pc = "eof" => mrc.delivered = mrc.whole

\* ======================================================================
\* merge under the caller's comparator (src/sort/srt.go)
\* ======================================================================
\* srt.go:71-80  one iteration of the first loop, the branch chosen by
\* less(temp[i], temp[j])
MergeOrderedFirstLoop ==
    /\ InFirstLoop(mg)
    /\ mg' = FirstLoopStep(mg, FrontLess(mg, less))
    /\ lessCalled' = TRUE
    /\ UNCHANGED <<data, input, less, par0, tasks, extVars>>

MergeOrderedNext == MergeOrderedFirstLoop \/ MergeSecondLoop

\* one merge call on every slice, every mid and every consistent comparator
MergeOrderedSpec == MergeInit /\ [][MergeOrderedNext]_vars

\* the front elements of the left and the right run tie under less
FrontsTie ==
    /\ InFirstLoop(mg)
    /\ ~less[mg.temp[mg.i + 1], mg.temp[mg.j + 1]]
    /\ ~less[mg.temp[mg.j + 1], mg.temp[mg.i + 1]]

\* the step writes the left run's front element and advances the left cursor
TakesLeft ==
    /\ mg'.i = mg.i + 1
    /\ mg'.j = mg.j
    /\ mg'.data[mg.k + 1] = mg.temp[mg.i + 1]

\* C20: whenever the front elements of the left and the right run tie under
\* less, the merge step takes the left element first.
C20_LeftFirstOnTies == [][FrontsTie => TakesLeft]_vars

\* ======================================================================
\* ParallelSort: barrier, threshold and split (src/sort/srt.go)
\* ======================================================================
\* the goroutines started by the call at depth d of goroutine t
Spawned(t, d) == {u \in DOMAIN tasks : tasks[u].parent = <<t, d>>}

\* a call about to merge is the innermost call of its goroutine (the call on
\* the right half has returned), the goroutine it started has ended, and no
\* other goroutine that works inside its slice is still running
MergeAfterBothHalves ==
    \A t \in DOMAIN tasks : \A d \in 1..Len(tasks[t].stack) :
        LET f == tasks[t].stack[d]
        IN  f.pc = "merge" =>
              /\ d = Len(tasks[t].stack)
              /\ Spawned(t, d) # {}
              /\ \A u \in Spawned(t, d) : tasks[u].done
              /\ \A u \in DOMAIN tasks \ {t} :
                    (f.lo <= u[1] /\ u[2] <= f.hi) => tasks[u].done

\* a step that merges is taken by a call whose two halves are both sorted
MergeOfSortedHalves ==
    \A t \in Live :
        (Top(t).pc = "merge" /\ Len(tasks'[t].stack) < Len(tasks[t].stack)) =>
            /\ IsSorted(Slice(data, Top(t).lo, Mid(Top(t))), less)
            /\ IsSorted(Slice(data, Mid(Top(t)), Top(t).hi), less)

\* C21: at every split the merge of a segment starts only after both the
\* goroutine sorting the left half and the call sorting the right half have
\* completed; merge never reads a half that is still being sorted.
C21_Barrier == []MergeAfterBothHalves /\ [][MergeOfSortedHalves]_vars

\* a nested call is about to merge while a goroutine started further out is
\* still sorting
C21_Witness ==
    \E t \in Live :
        /\ Len(tasks[t].stack) >= 2
        /\ Top(t).pc = "merge"
        /\ \E u \in Live : u # t /\ Top(u).pc = "entry"

\* goroutine t takes the step, running the call on top of its stack
Acts(t) ==
    \/ Len(tasks'[t].stack) # Len(tasks[t].stack)
    \/ tasks'[t].stack[Len(tasks[t].stack)].pc # Top(t).pc

\* a call below the threshold returns in one step with its slice sorted by
\* SortBy, starting no goroutine, never waiting or merging, and leaving the
\* rest of the array alone; any other call starts exactly one goroutine
ThresholdPolicy ==
    \A t \in Live :
        (Top(t).pc = "entry" /\ Acts(t)) =>
            LET f == Top(t)
            IN  IF f.par <= 1 \/ FrameLen(f) < Threshold
                  THEN /\ DOMAIN tasks' = DOMAIN tasks
                       /\ Len(tasks'[t].stack) = Len(tasks[t].stack) - 1
                       /\ Slice(data', f.lo, f.hi)
                             \in SortByResults(Slice(data, f.lo, f.hi), less)
                       /\ \A p \in 1..Len(data) :
                             (p <= f.lo \/ p > f.hi) => data'[p] = data[p]
                  ELSE /\ f.par >= 2 /\ FrameLen(f) >= Threshold
                       /\ Cardinality(DOMAIN tasks') = Cardinality(DOMAIN tasks) + 1

\* a step that starts a goroutine is the step of a call with a budget of two
\* or more on a slice of Threshold elements or more
SpawnOnlyAboveThreshold ==
    DOMAIN tasks' # DOMAIN tasks =>
        \E t \in Live :
            /\ Top(t).pc = "entry" /\ Acts(t)
            /\ Top(t).par >= 2
            /\ FrameLen(Top(t)) >= Threshold

\* C22: a call with parallelism <= 1 or a slice shorter than the threshold
\* starts no goroutine and merges nothing, it sorts its whole slice with
\* SortBy; a goroutine is started only by a call with parallelism >= 2 on a
\* slice of threshold length or more.
C22_ThresholdPolicy == [][ThresholdPolicy /\ SpawnOnlyAboveThreshold]_vars

\* a call with budget left has sorted a slice just below the threshold by
\* SortBy and returned, with no goroutine started
C22_Witness ==
    /\ Returned
    /\ par0 = MaxPar
    /\ Len(input) = Threshold - 1
    /\ DOMAIN tasks = {Main}
    /\ data # input

\* m is n/2 rounded down
IsHalf(m, n) == 2 * m <= n /\ n < 2 * m + 2

\* a splitting call starts exactly one goroutine, whose one call is on
\* [0, mid) of the slice, and calls itself on [mid, len); both calls get half
\* the budget, and the caller goes on to the barrier
SplitStep ==
    \A t \in Live :
        (Top(t).pc = "entry" /\ Acts(t) /\ DOMAIN tasks' # DOMAIN tasks) =>
            LET f     == Top(t)
                d     == Len(tasks[t].stack)
                new   == DOMAIN tasks' \ DOMAIN tasks
                right == tasks'[t].stack[d + 1]
            IN  /\ Cardinality(new) = 1
                /\ Len(tasks'[t].stack) = d + 1
                /\ tasks'[t].stack[d].pc = "wait"
                /\ right.pc = "entry"
                /\ right.hi = f.hi
                /\ IsHalf(right.lo - f.lo, FrameLen(f))
                /\ IsHalf(right.par, f.par)
                /\ \A u \in new :
                      /\ tasks'[u].parent = <<t, d>>
                      /\ ~tasks'[u].done
                      /\ Len(tasks'[u].stack) = 1
                      /\ tasks'[u].stack[1].pc = "entry"
                      /\ tasks'[u].stack[1].lo = f.lo
                      /\ tasks'[u].stack[1].hi = right.lo
                      /\ tasks'[u].stack[1].par = right.par
                /\ data' = data

\* C23: a splitting call divides its slice at mid = len/2 into [0, mid) and
\* [mid, len), starts exactly one goroutine, which sorts the left half, sorts
\* the right half itself, and passes parallelism/2 (rounded down) to both;
\* the halves cover the slice exactly.
C23_SplitStep == [][SplitStep]_vars

\* a slice of five elements split under a budget of three: the goroutine has
\* [0, 2), the caller goes on with [2, 5), both with a budget of one
C23_Witness ==
    /\ Len(input) = 5
    /\ par0 = 3
    /\ Cardinality(DOMAIN tasks) = 2
    /\ Len(tasks[Main].stack) = 2
    /\ Top(Main) = Frame(2, 5, 1)
    /\ \E u \in Live : u # Main /\ Top(u) = Frame(0, 2, 1)

\* ======================================================================
\* merge: postcondition and remainder (src/sort/srt.go)
\* ======================================================================
\* both loops of merge have ended: merge returns
MergeReturned == mg # NoMerge /\ ~InFirstLoop(mg) /\ ~InSecondLoop(mg)

\* data[0:mid] and data[mid:len] were each sorted when merge was called
RunsSorted ==
    /\ IsSorted(SubSeq(mg.temp, 1, mg.mid), less)
    /\ IsSorted(SubSeq(mg.temp, mg.mid + 1, Len(mg.temp)), less)

MergePostcondition ==
    MergeReturned =>
        /\ SameElements(mg.data, mg.temp)
        /\ RunsSorted => IsSorted(mg.data, less)

\* an iteration leaves temp alone and changes data at index k only, to the
\* element of temp under one of the read cursors
ReadsTempWritesData ==
    /\ mg'.temp = mg.temp
    /\ Len(mg'.data) = Len(mg.data)
    /\ \A p \in 1..Len(mg.data) : p # mg.k + 1 => mg'.data[p] = mg.data[p]
    /\ \/ mg'.i = mg.i + 1 /\ mg'.data[mg.k + 1] = mg.temp[mg.i + 1]
       \/ mg'.j = mg.j + 1 /\ mg'.data[mg.k + 1] = mg.temp[mg.j + 1]

\* C24: when data[0:mid] and data[mid:len] are each sorted under a consistent
\* comparator at the call of merge, data is sorted under it when merge
\* returns and is a permutation of its content on entry; merge reads only
\* its snapshot temp and writes only data.
C24_MergePostcondition == []MergePostcondition /\ [][ReadsTempWritesData]_vars

\* merge has returned from two sorted runs that had to be interleaved, the
\* second loop having copied the rest of the left run
C24_Witness ==
    /\ MergeReturned
    /\ RunsSorted
    /\ Len(mg.data) >= 4
    /\ 1 < mg.mid /\ mg.mid < Len(mg.data) - 1
    /\ mg.data # mg.temp
    /\ less[mg.temp[mg.mid + 1], mg.temp[mg.mid]]
    /\ mg.data[Len(mg.data)] = mg.temp[mg.mid]

\* the locals of merge when its first loop ends under comparator l
RECURSIVE FirstLoopEnd(_, _)
FirstLoopEnd(m, l) ==
    IF InFirstLoop(m)
    THEN The({FirstLoopEnd(n, l) : n \in {FirstLoopStep(m, FrontLess(m, l))}})
    ELSE m

\* when merge returns, data holds what the first loop emitted, directly
\* followed by the rest of the run that was not exhausted, in its order
RemainderFollows ==
    MergeReturned =>
        LET e == FirstLoopEnd([mg EXCEPT !.data = mg.temp, !.i = 0, !.j = mg.mid, !.k = 0], less)
            n == Len(mg.data)
        IN  /\ SubSeq(mg.data, 1, e.k) = SubSeq(e.data, 1, e.k)
            /\ SubSeq(mg.data, e.k + 1, n) =
                  IF e.i = mg.mid THEN SubSeq(mg.temp, e.j + 1, n)
                                  ELSE SubSeq(mg.temp, e.i + 1, mg.mid)

\* once a run is exhausted a step does not call less
NoCompareAfterExhaustion == ~InFirstLoop(mg) => lessCalled' = lessCalled

\* C25: once one of the two runs is exhausted, the remaining elements of the
\* other run end up in the output in their order, directly after the elements
\* already emitted and with no further call of less, whichever run is
\* exhausted first.
C25_Remainder == []RemainderFollows /\ [][NoCompareAfterExhaustion]_vars

\* merge has returned after the left run was exhausted first: an element of
\* the right run was emitted before that, and two of them are left over
C25_Witness ==
    /\ MergeReturned
    /\ lessCalled
    /\ mg.mid >= 1
    /\ mg.i = mg.mid
    /\ mg.j > mg.mid
    /\ mg.j + 2 <= Len(mg.data)

====
